---- MODULE Spec2Model ----
(***************************************************************************)
(* A model of the Telegram advocacy-letter bot of src/main.py: the         *)
(* conversation state machine that main() registers (a ConversationHandler *)
(* keyed by chat and user, followed by a plain MessageHandler in the same  *)
(* handler group), the handlers it dispatches to, the SessionData kept in  *)
(* context.user_data, and the renderer (build_subject, build_email_body).  *)
(*                                                                         *)
(* Text is a sequence of one-character strings.  The fixed paragraphs of   *)
(* a rendered body are kept as whole strings, one element each, so a body  *)
(* is a sequence whose elements are fixed pieces and user characters, in   *)
(* the order the f-strings of build_email_body put them.                   *)
(*                                                                         *)
(* Updates are handled one at a time (the Application is built without     *)
(* concurrent_updates), so one action is one update handled to the end.    *)
(* Replies are taken to be delivered: a failing send is not modelled.      *)
(***************************************************************************)
EXTENDS Integers, Sequences, FiniteSets, TLC

\* ------------------------------------------------------------------ bounds

\* Blanks put before and after the padded inputs.
MaxPad == 1
\* How many characters the long input has beyond the concern cap.
Overshoot == 60

\* --------------------------------------------------------------- constants

CHOOSE_ENTITY == 0
CHOOSE_TEMPLATE == 1
ASK_NAME == 2
ASK_LOCATION == 3
ASK_CONCERN == 4
SHOW_OUTPUT == 5
\* ConversationHandler.END: the conversation is over (no state is kept).
END == 0 - 1

NAME_CAP == 80
LOCATION_CAP == 80
CONCERN_CAP == 240

\* allow_reentry=False: an entry point is not checked while a conversation
\* is active.
allow_reentry_off == FALSE

allow_reentry == TRUE

\* ----------------------------------------------------------- text helpers

Min(a, b) == IF a < b THEN a ELSE b

Rep(c, n) == [i \in 1..n |-> c]

NL == "\n"

\* str.strip() with no argument removes these from both ends.
Whitespace == {" ", "\n", "\t"}

RECURSIVE LStrip(_)
LStrip(s) == IF s # <<>> /\ Head(s) \in Whitespace THEN LStrip(Tail(s)) ELSE s

RECURSIVE RStrip(_)
RStrip(s) ==
    IF s # <<>> /\ s[Len(s)] \in Whitespace
    THEN RStrip(SubSeq(s, 1, Len(s) - 1))
    ELSE s

Strip(s) == RStrip(LStrip(s))

UpperAlpha ==
    <<"A", "B", "C", "D", "E", "F", "G", "H", "I", "J", "K", "L", "M",
      "N", "O", "P", "Q", "R", "S", "T", "U", "V", "W", "X", "Y", "Z">>

LowerAlpha ==
    <<"a", "b", "c", "d", "e", "f", "g", "h", "i", "j", "k", "l", "m",
      "n", "o", "p", "q", "r", "s", "t", "u", "v", "w", "x", "y", "z">>

UpperLetters == {UpperAlpha[i] : i \in 1..26}

LowerOf == [c \in UpperLetters |-> LowerAlpha[CHOOSE i \in 1..26 : UpperAlpha[i] = c]]

LowerChar(c) == IF c \in UpperLetters THEN LowerOf[c] ELSE c

\* str.lower()
Lower(s) == [i \in 1..Len(s) |-> LowerChar(s[i])]

\* s[:n]
Take(s, n) == SubSeq(s, 1, Min(n, Len(s)))

\* s.replace("\n", " ")
ReplaceNewlines(s) == [i \in 1..Len(s) |-> IF s[i] = NL THEN " " ELSE s[i]]

\* ------------------------------------------------------------ the catalog

ENTITIES ==
    [pm |-> [label |-> "Prime Minister",
             contact |-> "Contact form: https://www.pm.gov.au/contact",
             emails |-> <<>>],
     parliament |-> [label |-> "Parliament of Australia",
             contact |-> "Contact form: https://www.aph.gov.au/Help/Contact_Us",
             emails |-> <<>>],
     foreign_minister |-> [label |-> "Minister for Foreign Affairs",
             contact |-> "Contact form: https://www.foreignminister.gov.au/contact-foreign-minister",
             emails |-> <<>>],
     dfat |-> [label |-> "Department of Foreign Affairs",
             contact |-> "None",
             emails |-> <<"media@dfat.gov.au", "legalisations.australia@dfat.gov.au",
                          "lara.nassau@dfat.gov.au">>],
     oni |-> [label |-> "Office of National Intelligence",
             contact |-> "None",
             emails |-> <<"info@igis.gov.au", "hotline@nationalsecurity.gov.au">>],
     us_embassy |-> [label |-> "US Embassy in Australia",
             contact |-> "None",
             emails |-> <<"SydneyACS@state.gov">>]]

TEMPLATES ==
    [short |-> [label |-> "Short"],
     formal |-> [label |-> "Formal"],
     detailed |-> [label |-> "Detailed"]]

\* SessionData(): every field empty.
SessionData ==
    [entity_key |-> "", template_key |-> "", name |-> <<>>, location |-> <<>>,
     concern |-> <<>>]

\* ----------------------------------------------------------- the renderer

build_subject(entity_key) ==
    CASE entity_key = "pm" -> "Urgent: Human Rights Concerns Regarding Iran"
      [] entity_key = "parliament" ->
            "Parliamentary Inquiry Request: Australia's Iran Policy"
      [] entity_key = "foreign_minister" ->
            "Foreign Policy Review: Australia's Engagement with Iran"
      [] entity_key = "dfat" ->
            "Request: Human Rights-Based Review of Australia's Engagement with Iran"
      [] entity_key = "oni" ->
            "Intelligence Assessment Request: Iran Human Rights Situation"
      [] entity_key = "us_embassy" ->
            "Urgent: Request for US Intervention on Iran Human Rights Crisis"
      [] OTHER -> "Human Rights Concerns Regarding Iran"

DefaultSignoff == "A concerned Australian citizen"

ConcernLeadIn == "I am particularly concerned about: "

signoff_of(name) == IF name # <<>> THEN name ELSE <<DefaultSignoff>>

loc_line_of(location) == IF location # <<>> THEN <<NL>> \o location ELSE <<>>

\* concern_sentence_of without the replacement of the newlines.
concern_sentence_keeping_newlines(concern) ==
    IF Strip(concern) # <<>>
    THEN <<ConcernLeadIn>> \o Strip(concern) \o <<NL, NL>>
    ELSE <<>>

concern_sentence_of(concern) ==
    IF Strip(concern) # <<>>
    THEN <<ConcernLeadIn>> \o ReplaceNewlines(Strip(concern)) \o <<NL, NL>>
    ELSE <<>>

greeting_of(entity_key) ==
    CASE entity_key = "pm" -> "Dear Prime Minister,"
      [] entity_key = "parliament" -> "Dear Members of Parliament,"
      [] entity_key = "foreign_minister" -> "Dear Minister,"
      [] entity_key = "dfat" -> "Dear Sir or Madam,"
      [] entity_key = "oni" -> "Dear Intelligence Officials,"
      [] entity_key = "us_embassy" -> "Dear US Embassy Officials,"
      [] OTHER -> "Dear Sir or Madam,"

\* BodyHead with the embassy's own opening chosen by the entity alone, in
\* every tone.
BodyHead_embassy_in_every_tone(entity_key, template_key) ==
    <<greeting_of(entity_key), NL, NL>> \o
    (CASE entity_key = "us_embassy" ->
            <<"I am writing to urgently request US government intervention regarding the mass killing of protesters in Iran by the Islamic Republic regime.">>
       [] entity_key # "us_embassy" /\ template_key = "short" ->
            <<"I am writing to express serious concerns about human rights violations in Iran and urge a principled Australian response.">>
       [] entity_key # "us_embassy" /\ template_key = "detailed" ->
            <<"I write to request that the Australian Government adopt a comprehensive, human-rights-centred approach regarding Iran. Credible reporting by international bodies has documented serious concerns about the suppression of fundamental freedoms and due process.">>
       [] OTHER ->
            <<"I am writing to urge the Australian Government to take a principled stance in response to credible reports of ongoing human rights violations in Iran.">>)
    \o <<NL, NL>>

\* The text of a body before {concern_sentence}: greeting and opening paragraph.
BodyHead(entity_key, template_key) ==
    <<greeting_of(entity_key), NL, NL>> \o
    (CASE template_key = "short" /\ entity_key = "us_embassy" ->
            <<"I am writing to urgently request US government intervention regarding the mass killing of protesters in Iran by the Islamic Republic regime.">>
       [] template_key = "short" /\ entity_key # "us_embassy" ->
            <<"I am writing to express serious concerns about human rights violations in Iran and urge a principled Australian response.">>
       [] template_key = "detailed" ->
            <<"I write to request that the Australian Government adopt a comprehensive, human-rights-centred approach regarding Iran. Credible reporting by international bodies has documented serious concerns about the suppression of fundamental freedoms and due process.">>
       [] OTHER ->
            <<"I am writing to urge the Australian Government to take a principled stance in response to credible reports of ongoing human rights violations in Iran.">>)
    \o <<NL, NL>>

\* The text of a body from {concern_sentence} (excluded) to {signoff} (excluded).
BodyTail(entity_key, template_key) ==
    CASE template_key = "short" /\ entity_key = "us_embassy" ->
            <<"I respectfully urge the United States to take immediate action to stop these atrocities and hold the Iranian regime accountable for crimes against humanity.",
              NL, NL, "Thank you for your urgent attention.",
              NL, NL, "Yours sincerely,", NL>>
      [] template_key = "short" /\ entity_key # "us_embassy" ->
            <<"I respectfully request that Australia review its diplomatic engagement with the Islamic Republic and engage with credible Iranian civil society representatives.",
              NL, NL, "Thank you for your attention.",
              NL, NL, "Yours sincerely,", NL>>
      [] template_key = "detailed" ->
            <<"In light of these concerns, I respectfully ask Australia to:", NL,
              "1) Review the basis of diplomatic engagement with the Islamic Republic in view of persistent human rights violations;", NL,
              "2) Engage in structured dialogue with credible democratic opposition figures and Iranian civil society representatives;", NL,
              "3) Support accountability measures consistent with Australia's commitment to human rights and the UN Charter.",
              NL, NL, "Thank you for considering this important matter.",
              NL, NL, "Yours sincerely,", NL>>
      [] OTHER ->
            <<"I respectfully ask the Government to review the political legitimacy it affords the Islamic Republic through diplomatic engagement, and to engage with credible democratic opposition figures and representatives of Iranian civil society as part of a human-rights-based foreign policy.",
              NL, NL, "Such steps would affirm that sustained repression cannot coexist with full political legitimacy.",
              NL, NL, "Thank you for your attention.",
              NL, NL, "Yours sincerely,", NL>>

build_email_body(entity_key, template_key, name, location, concern) ==
    BodyHead(entity_key, template_key)
    \o concern_sentence_of(concern)
    \o BodyTail(entity_key, template_key)
    \o signoff_of(name)
    \o loc_line_of(location)

\* ------------------------------------------------- updates (the inputs)

Chats == {"c1", "c2"}
Users == {"u1"}

\* ConversationHandler._get_key with per_chat=True, per_user=True.
Keys == Chats \X Users

UserOf(k) == k[2]

Pad == Rep(" ", MaxPad)

\* " Start ", " Skip", "/skip", "/Start", "/cancel"
TextStart == Pad \o <<"S", "t", "a", "r", "t">> \o Pad
TextSkip == Pad \o <<"S", "k", "i", "p">>
TextSlashSkip == <<"/", "s", "k", "i", "p">>
TextSlashStart == <<"/", "S", "t", "a", "r", "t">>
TextSlashCancel == <<"/", "c", "a", "n", "c", "e", "l">>

\* A text longer than both caps, with a newline as its character NAME_CAP
\* and a blank as its character CONCERN_CAP.
TextLong ==
    Rep("a", NAME_CAP - 1) \o <<NL>> \o Rep("b", CONCERN_CAP - NAME_CAP - 1)
    \o <<" ">> \o Rep("c", Overshoot)

Texts ==
    {TextStart, TextSkip, TextSlashSkip, TextSlashStart, TextSlashCancel, TextLong}

EntityInputs == DOMAIN ENTITIES \cup {"not_a_real_key"}
TemplateInputs == DOMAIN TEMPLATES \cup {"bogus"}

\* callback_data, split at its first ":" ("entity:pm" is <<"entity", "pm">>).
Datas ==
    {<<"entity", e>> : e \in EntityInputs}
    \cup {<<"tpl", t>> : t \in TemplateInputs}
    \cup {<<"restart">>}

MessageUpdate(text) == [kind |-> "message", text |-> text, data |-> <<>>]
CallbackUpdate(data) == [kind |-> "callback_query", text |-> <<>>, data |-> data]

Updates ==
    {MessageUpdate(t) : t \in Texts} \cup {CallbackUpdate(d) : d \in Datas}

\* ------------------------------------------------------------- dispatching

\* filters.COMMAND: the text starts with a bot command ("/" and a name).
IsCommand(upd) ==
    upd.kind = "message" /\ Len(upd.text) > 1 /\ upd.text[1] = "/"

\* filters.TEXT & ~filters.COMMAND
IsPlainText(upd) ==
    upd.kind = "message" /\ upd.text # <<>> /\ ~IsCommand(upd)

RECURSIVE FirstWord(_)
FirstWord(s) ==
    IF s = <<>> \/ Head(s) \in Whitespace
    THEN <<>>
    ELSE <<Head(s)>> \o FirstWord(Tail(s))

\* CommandHandler(name, ...): the command is compared in lower case.
IsCommandNamed(upd, name) ==
    IsCommand(upd) /\ Lower(Tail(FirstWord(upd.text))) = name

\* CallbackQueryHandler(pattern=r"^entity:") and (pattern=r"^tpl:")
MatchesPrefix(upd, prefix) ==
    upd.kind = "callback_query" /\ Len(upd.data) >= 2 /\ upd.data[1] = prefix

\* CallbackQueryHandler(pattern=r"^restart$")
MatchesRestart(upd) == upd.kind = "callback_query" /\ upd.data = <<"restart">>

\* states={...}: the handler of a state that takes the update, or "none".
StateHandler(state, upd) ==
    CASE state = CHOOSE_ENTITY /\ MatchesPrefix(upd, "entity") -> "on_entity_chosen"
      [] state = CHOOSE_TEMPLATE /\ MatchesPrefix(upd, "tpl") -> "on_template_chosen"
      [] state = ASK_NAME /\ IsPlainText(upd) -> "get_name"
      [] state = ASK_LOCATION /\ IsPlainText(upd) -> "get_location"
      [] state = ASK_CONCERN /\ IsPlainText(upd) -> "get_concern"
      [] state = SHOW_OUTPUT /\ MatchesRestart(upd) -> "restart"
      [] OTHER -> "none"

\* ConversationHandler.check_update: entry points first (in every state when
\* allow_reentry), then the handlers of the state, then the fallbacks.
ConversationCheck(state, upd) ==
    IF (state = END \/ allow_reentry) /\ IsCommandNamed(upd, <<"s", "t", "a", "r", "t">>)
    THEN "start"
    ELSE IF state = END
    THEN "none"
    ELSE IF StateHandler(state, upd) # "none"
    THEN StateHandler(state, upd)
    ELSE IF IsCommandNamed(upd, <<"c", "a", "n", "c", "e", "l">>)
    THEN "cancel"
    ELSE "none"

\* Application.process_update over the one handler group: the conversation
\* handler, and when it takes nothing the MessageHandler added after it.
Dispatch(state, upd) ==
    IF ConversationCheck(state, upd) # "none"
    THEN ConversationCheck(state, upd)
    ELSE IF IsPlainText(upd)
    THEN "handle_start_text"
    ELSE "none"

States == {END, CHOOSE_ENTITY, CHOOSE_TEMPLATE, ASK_NAME, ASK_LOCATION, ASK_CONCERN,
           SHOW_OUTPUT}

\* Dispatch, tabulated over the states and the updates of the model.
HandlerFor == [state \in States, upd \in Updates |-> Dispatch(state, upd)]

\* Handlers of the ConversationHandler: what they return sets the state.
ConversationHandlers ==
    {"start", "on_entity_chosen", "on_template_chosen", "get_name",
     "get_location", "get_concern", "restart", "cancel"}

\* ------------------------------------------------------------ the handlers
\* A handler is an operator from the user's user_data (and the update) to
\*   ud      the user_data it leaves,
\*   raised  whether it ended by an exception it did not catch,
\*   ret     the state it returns (meaningless when raised),
\*   reply   what it sent to the chat.

Reply(type) == [type |-> type, contact_info |-> <<>>, subject |-> "", body |-> <<>>]

Result(ud, raised, ret, reply) ==
    [ud |-> ud, raised |-> raised, ret |-> ret, reply |-> reply]

\* context.user_data of a user who has no session yet: an empty dict.
NoUserData == [x \in {} |-> SessionData]

HasSession(ud) == "session" \in DOMAIN ud

\* user_data after ensure_session(context); the session it returns is .session
ensure_session(ud) == IF HasSession(ud) THEN ud ELSE [session |-> SessionData]

start(ud) == Result(ensure_session(ud), FALSE, CHOOSE_ENTITY, Reply("choose_entity"))

StartWords == {<<"s", "t", "a", "r", "t">>, <<"/", "s", "t", "a", "r", "t">>}

\* handle_start_text starting over with a fresh session on the start word.
handle_start_text_resetting(ud, upd) ==
    IF Lower(Strip(upd.text)) \in StartWords
    THEN start([session |-> SessionData])
    ELSE Result(ud, FALSE, END, Reply("none"))

handle_start_text(ud, upd) ==
    IF Lower(Strip(upd.text)) \in StartWords
    THEN start(ud)
    ELSE Result(ud, FALSE, END, Reply("none"))

\* query.data.split(":", 1)[1]
KeyOfData(data) == data[2]

\* on_entity_chosen without the lookup that rejects a key outside the
\* catalog: every key is stored and moves on.
on_entity_chosen_accepting_any_key(ud, upd) ==
    LET entity_key == KeyOfData(upd.data)
        stored == [session |-> [ensure_session(ud).session EXCEPT !.entity_key = entity_key]]
    IN  Result(stored, FALSE, CHOOSE_TEMPLATE, Reply("choose_template"))

on_entity_chosen(ud, upd) ==
    LET entity_key == KeyOfData(upd.data)
        stored == [session |-> [ensure_session(ud).session EXCEPT !.entity_key = entity_key]]
    IN  IF entity_key \in DOMAIN ENTITIES
        THEN Result(stored, FALSE, CHOOSE_TEMPLATE, Reply("choose_template"))
        ELSE Result(stored, TRUE, END, Reply("none"))

\* on_template_chosen returning the state after the next one.
on_template_chosen_skipping_name(ud, upd) ==
    LET template_key == KeyOfData(upd.data)
        stored == [session |-> [ensure_session(ud).session EXCEPT !.template_key = template_key]]
    IN  IF template_key \in DOMAIN TEMPLATES
        THEN Result(stored, FALSE, ASK_LOCATION, Reply("ask_name"))
        ELSE Result(stored, TRUE, END, Reply("none"))

on_template_chosen(ud, upd) ==
    LET template_key == KeyOfData(upd.data)
        stored == [session |-> [ensure_session(ud).session EXCEPT !.template_key = template_key]]
    IN  IF template_key \in DOMAIN TEMPLATES
        THEN Result(stored, FALSE, ASK_NAME, Reply("ask_name"))
        ELSE Result(stored, TRUE, END, Reply("none"))

SkipWords == {<<"s", "k", "i", "p">>, <<"/", "s", "k", "i", "p">>}

\* What get_name, get_location and get_concern store for a message text.
Answer(raw, cap) ==
    LET text == Strip(raw)
    IN  IF Lower(text) \in SkipWords THEN <<>> ELSE Take(text, cap)

\* The try block of get_name and get_location: both labels are looked up.
LabelsFound(session) ==
    session.entity_key \in DOMAIN ENTITIES /\ session.template_key \in DOMAIN TEMPLATES

\* get_name leaving the name as it is when the text is a skip word.
get_name_keeping_on_skip(ud, upd) ==
    LET now == ensure_session(ud).session
        stored == [session |-> [now EXCEPT
                                   !.name = IF Lower(Strip(upd.text)) \in SkipWords
                                            THEN now.name
                                            ELSE Answer(upd.text, NAME_CAP)]]
    IN  IF LabelsFound(stored.session)
        THEN Result(stored, FALSE, ASK_LOCATION, Reply("ask_location"))
        ELSE Result(stored, FALSE, END, Reply("session_error"))

get_name(ud, upd) ==
    LET stored == [session |-> [ensure_session(ud).session EXCEPT
                                   !.name = Answer(upd.text, NAME_CAP)]]
    IN  IF LabelsFound(stored.session)
        THEN Result(stored, FALSE, ASK_LOCATION, Reply("ask_location"))
        ELSE Result(stored, FALSE, END, Reply("session_error"))

get_location(ud, upd) ==
    LET stored == [session |-> [ensure_session(ud).session EXCEPT
                                   !.location = Answer(upd.text, LOCATION_CAP)]]
    IN  IF LabelsFound(stored.session)
        THEN Result(stored, FALSE, ASK_CONCERN, Reply("ask_concern"))
        ELSE Result(stored, FALSE, END, Reply("session_error"))

RECURSIVE JoinLines(_)
JoinLines(lines) ==
    IF Len(lines) <= 1 THEN lines ELSE <<Head(lines), NL>> \o JoinLines(Tail(lines))

\* The Markdown code mark (a backquote), which a TLA+ string cannot hold.
CodeMark == "<backquote>"

contact_info_of(entity) ==
    IF entity.emails # <<>>
    THEN <<"**To:**", NL, CodeMark>> \o JoinLines(entity.emails) \o <<CodeMark>>
    ELSE <<"**Contact:**", NL, entity.contact>>

\* Whether show_output gets to the renderer: ENTITIES[session.entity_key] is
\* the only lookup of its try block that can raise KeyError.
RendererInvoked(session) == session.entity_key \in DOMAIN ENTITIES

show_output(ud) ==
    LET now == ensure_session(ud)
        session == now.session
    IN  IF RendererInvoked(session)
        THEN Result(now, FALSE, SHOW_OUTPUT,
                    [type |-> "output",
                     contact_info |-> contact_info_of(ENTITIES[session.entity_key]),
                     subject |-> build_subject(session.entity_key),
                     body |-> build_email_body(session.entity_key, session.template_key,
                                               session.name, session.location,
                                               session.concern)])
        ELSE Result(now, FALSE, END, Reply("session_error"))

get_concern(ud, upd) ==
    show_output([session |-> [ensure_session(ud).session EXCEPT
                                 !.concern = Answer(upd.text, CONCERN_CAP)]])

\* restart keeping the session there is, as start does.
restart_keeping_session(ud) ==
    Result(ensure_session(ud), FALSE, CHOOSE_ENTITY, Reply("choose_entity"))

restart(ud) ==
    Result([session |-> SessionData], FALSE, CHOOSE_ENTITY, Reply("choose_entity"))

\* cancel returning the first state where the code returns END.
cancel_returning_first_state(ud) ==
    Result(ud, FALSE, CHOOSE_ENTITY, Reply("cancelled"))

cancel(ud) == Result(ud, FALSE, END, Reply("cancelled"))

\* ---------------------------------------------------------------- state

VARIABLES
    conv,       \* ConversationHandler._conversations: key -> state (END: none kept)
    user_data,  \* Application.user_data: user -> the dict a handler sees
    trail,      \* history: key -> the steps accepted since ChooseEntity was entered,
                \*          each with the update that made it
    last        \* history: the update handled last, its handler, the kind of reply

vars == <<conv, user_data, trail, last>>

NoKey == <<"", "">>

Init ==
    /\ conv = [k \in Keys |-> END]
    /\ user_data = [u \in Users |-> NoUserData]
    /\ trail = [k \in Keys |-> <<>>]
    /\ last = [key |-> NoKey, upd |-> MessageUpdate(<<>>), handler |-> "init",
               before |-> END, raised |-> FALSE, replied |-> "none"]

\* Whether a message text is one of the skip words, as the handlers test it.
IsSkip(raw) == Lower(Strip(raw)) \in SkipWords

StepOf(h) ==
    CASE h = "on_entity_chosen" -> "entity"
      [] h = "on_template_chosen" -> "tone"
      [] h = "get_name" -> "name"
      [] h = "get_location" -> "location"
      [] h = "get_concern" -> "concern"
      [] OTHER -> "none"

\* The trail after handler h: emptied when the conversation enters
\* ChooseEntity or ends, one step longer when h was accepted and moved on.
NextTrail(old, h, r, upd) ==
    IF h \notin ConversationHandlers \/ r.raised
    THEN old
    ELSE IF r.ret \in {CHOOSE_ENTITY, END}
    THEN <<>>
    ELSE Append(old, [step |-> StepOf(h),
                      skip |-> upd.kind = "message" /\ IsSkip(upd.text),
                      upd |-> upd])

\* ConversationHandler.handle_update: the state a handler returns becomes the
\* state of the key; an exception leaves it; a handler outside the
\* conversation handler has no say.
NextState(old, h, r) ==
    IF h \in ConversationHandlers /\ ~r.raised THEN r.ret ELSE old

\* Update upd of conversation k, taken by handler h with result r.
Handle(k, upd, h, r) ==
    /\ HandlerFor[conv[k], upd] = h
    /\ user_data' = [user_data EXCEPT ![UserOf(k)] = r.ud]
    /\ conv' = [conv EXCEPT ![k] = NextState(@, h, r)]
    /\ trail' = [trail EXCEPT ![k] = NextTrail(@, h, r, upd)]
    /\ last' = [key |-> k, upd |-> upd, handler |-> h, before |-> conv[k],
                raised |-> r.raised, replied |-> r.reply.type]

Start(k, upd) == Handle(k, upd, "start", start(user_data[UserOf(k)]))

HandleStartText(k, upd) ==
    Handle(k, upd, "handle_start_text", handle_start_text(user_data[UserOf(k)], upd))

OnEntityChosen(k, upd) ==
    Handle(k, upd, "on_entity_chosen", on_entity_chosen(user_data[UserOf(k)], upd))

OnTemplateChosen(k, upd) ==
    Handle(k, upd, "on_template_chosen", on_template_chosen(user_data[UserOf(k)], upd))

GetName(k, upd) == Handle(k, upd, "get_name", get_name(user_data[UserOf(k)], upd))

GetLocation(k, upd) ==
    Handle(k, upd, "get_location", get_location(user_data[UserOf(k)], upd))

GetConcern(k, upd) ==
    Handle(k, upd, "get_concern", get_concern(user_data[UserOf(k)], upd))

Restart(k, upd) == Handle(k, upd, "restart", restart(user_data[UserOf(k)]))

Cancel(k, upd) == Handle(k, upd, "cancel", cancel(user_data[UserOf(k)]))

\* No handler takes the update: it is dropped.
Dropped(k, upd) ==
    Handle(k, upd, "none", Result(user_data[UserOf(k)], FALSE, END, Reply("none")))

\* One update of one conversation, handled to the end.
Deliver(k, upd) ==
    \/ Start(k, upd)
    \/ HandleStartText(k, upd)
    \/ OnEntityChosen(k, upd)
    \/ OnTemplateChosen(k, upd)
    \/ GetName(k, upd)
    \/ GetLocation(k, upd)
    \/ GetConcern(k, upd)
    \/ Restart(k, upd)
    \/ Cancel(k, upd)
    \/ Dropped(k, upd)

\* One conversation, every update of the model.
Next == \E upd \in Updates : Deliver(<<"c1", "u1">>, upd)

Spec == Init /\ [][Next]_vars

\* The same user in two chats: two conversations that share the user's
\* user_data, over the smaller set of updates SharedUpdates.
SharedUpdates ==
    {MessageUpdate(t) : t \in {TextSkip, TextStart, TextSlashStart, TextSlashCancel}}
    \cup {CallbackUpdate(d) :
            d \in {<<"entity", "pm">>, <<"entity", "not_a_real_key">>,
                   <<"tpl", "short">>, <<"tpl", "bogus">>, <<"restart">>}}

NextShared == \E k \in Keys, upd \in SharedUpdates : Deliver(k, upd)

SpecShared == Init /\ [][NextShared]_vars

\* ------------------------------------------------------------ properties

\* The session of the conversation whose update was handled last.
LastSession == user_data[UserOf(last.key)].session

\* The update handled last was a text message, not a command, received in
\* state `state`.
LastPlainTextAt(state) ==
    last.handler # "init" /\ last.before = state /\ IsPlainText(last.upd)

\* The update handled last was a message carrying a skip word ("skip" or
\* "/skip" in any letter case), received in state `state`.
LastSkipAt(state) ==
    last.handler # "init" /\ last.before = state /\ last.upd.kind = "message"
    /\ IsSkip(last.upd.text)

\* The Output sent last (meaningful when last.replied = "output": the session
\* is still the one show_output rendered).
LastOutput == show_output(user_data[UserOf(last.key)]).reply

Elements(seq) == {seq[i] : i \in 1..Len(seq)}

StepsOf(t) == [i \in 1..Len(t) |-> t[i].step]

FullPass == <<"entity", "tone", "name", "location", "concern">>

\* C1: an entity selection whose key is not in the catalog, received at
\* ChooseEntity, leaves the conversation state and the whole Session as they
\* were.
C1_InvalidSelectionChangesNothing ==
    [][(/\ last'.handler = "on_entity_chosen"
        /\ KeyOfData(last'.upd.data) \notin DOMAIN ENTITIES)
       => (conv' = conv /\ user_data' = user_data)]_vars

\* C2: in every reachable state the entity key of a Session is empty or a key
\* of the entity catalog.
C2_EntityKeyAlwaysValid ==
    \A u \in Users :
        HasSession(user_data[u]) =>
            user_data[u].session.entity_key \in DOMAIN ENTITIES \cup {""}

\* C3: whenever show_output has invoked the renderer, the Session it read has
\* an entity key of the entity catalog and a tone key of the tone catalog.
C3_RendererSeesCatalogKeys ==
    last.replied = "output" =>
        /\ LastSession.entity_key \in DOMAIN ENTITIES
        /\ LastSession.template_key \in DOMAIN TEMPLATES

\* A change of state of conversation k allowed by C4.
C4_Move(k) ==
    conv'[k] # conv[k] =>
        \/ /\ conv[k] \in CHOOSE_ENTITY..ASK_CONCERN
           /\ conv'[k] = conv[k] + 1
        \/ /\ conv'[k] = CHOOSE_ENTITY
           /\ last'.key = k
           /\ last'.handler \in {"start", "restart"}
        \/ /\ conv'[k] = END
           /\ last'.key = k
           /\ (last'.handler = "cancel" \/ last'.replied = "session_error")

\* C4: a conversation advances one state at a time along ChooseEntity,
\* ChooseTone, AskName, AskLocation, AskConcern, ShowOutput, its only other
\* moves being Start or Restart to ChooseEntity and Cancel or a session error
\* to Ended; and when an Output is sent, the steps accepted since ChooseEntity
\* was last entered are entity, tone, name, location, concern, in this order.
C4_OneStepAtATime ==
    [][/\ \A k \in Keys : C4_Move(k)
       /\ last'.replied = "output" => StepsOf(trail'[last'.key]) = FullPass]_vars

\* C4's case: an Output has been sent after a full pass.
C4_Witness ==
    /\ last.replied = "output"
    /\ conv[last.key] = SHOW_OUTPUT
    /\ Len(trail[last.key]) = 5

\* C5: a Restart received in ShowOutput leaves a Session equal to a fresh
\* SessionData() and the conversation in ChooseEntity.
C5_RestartLaw ==
    (/\ last.handler # "init"
     /\ last.before = SHOW_OUTPUT
     /\ MatchesRestart(last.upd))
    => /\ LastSession = SessionData
       /\ conv[last.key] = CHOOSE_ENTITY

\* C5's case: a Restart was received in ShowOutput, in a conversation whose
\* user has a second conversation past its own entity choice.
C5_Witness ==
    /\ last.handler = "restart"
    /\ last.before = SHOW_OUTPUT
    /\ \E k \in Keys : k # last.key /\ conv[k] = ASK_CONCERN

\* C6: with no conversation active, a message that is the start keyword in
\* any letter case, with or without the "/" marker, starts the conversation
\* in ChooseEntity.
C6_StartWithOrWithoutMarker ==
    (/\ last.handler # "init"
     /\ last.before = END
     /\ last.upd.kind = "message"
     /\ Lower(Strip(last.upd.text)) \in StartWords)
    => conv[last.key] = CHOOSE_ENTITY

\* C7: at AskName, AskLocation and AskConcern a skip word, with or without
\* the "/" marker, stores the empty string in the field of the step and moves
\* the conversation to the next state.
C7_SkipWithOrWithoutMarker ==
    /\ LastSkipAt(ASK_NAME) =>
            LastSession.name = <<>> /\ conv[last.key] = ASK_LOCATION
    /\ LastSkipAt(ASK_LOCATION) =>
            LastSession.location = <<>> /\ conv[last.key] = ASK_CONCERN
    /\ LastSkipAt(ASK_CONCERN) =>
            LastSession.concern = <<>> /\ conv[last.key] = SHOW_OUTPUT

\* A body ends with the closing line and the signoff, nothing after it.
EndsWithSignoff(body, signoff) ==
    LET n == Len(body) - Len(signoff)
    IN  /\ n >= 2
        /\ SubSeq(body, n + 1, Len(body)) = signoff
        /\ body[n] = NL
        /\ body[n - 1] = "Yours sincerely,"

\* The signoff of a body is the default one, with nothing after it.
EndsWithDefaultSignoff(body) == EndsWithSignoff(body, <<DefaultSignoff>>)

\* C8: when an Output is rendered, a field whose step was answered by the
\* skip word in this pass is the empty string and its part of the body is
\* left out: the default signoff for the name, no location line after the
\* signoff, no concern sentence.
C8_SkipLaw ==
    last.replied = "output" =>
        LET t == trail[last.key]
            s == LastSession
            body == LastOutput.body
        IN  /\ Len(t) = 5
            /\ t[3].skip =>
                    /\ s.name = <<>>
                    /\ DefaultSignoff \in Elements(body)
                    /\ s.location = <<>> => EndsWithDefaultSignoff(body)
            /\ t[4].skip =>
                    /\ s.location = <<>>
                    /\ EndsWithSignoff(body, signoff_of(s.name))
            /\ t[5].skip =>
                    /\ s.concern = <<>>
                    /\ ConcernLeadIn \notin Elements(body)

\* C9: a free text that is not a skip word, received at AskName (AskLocation),
\* is stored as the first 80 characters of the stripped text, raises no error
\* and moves the conversation to AskLocation (AskConcern).
C9_FreeTextStoredAndAdvances ==
    /\ (LastPlainTextAt(ASK_NAME) /\ ~IsSkip(last.upd.text)) =>
            /\ LastSession.name = Take(Strip(last.upd.text), NAME_CAP)
            /\ last.replied # "session_error"
            /\ conv[last.key] = ASK_LOCATION
    /\ (LastPlainTextAt(ASK_LOCATION) /\ ~IsSkip(last.upd.text)) =>
            /\ LastSession.location = Take(Strip(last.upd.text), LOCATION_CAP)
            /\ last.replied # "session_error"
            /\ conv[last.key] = ASK_CONCERN

IsTrimmed(text) == Strip(text) = text

\* C11: in every reachable state the name, the location and the concern
\* stored in a Session have no leading and no trailing whitespace, also when
\* the text received was longer than the cap and was cut.
C11_StoredTextIsTrimmed ==
    \A u \in Users :
        HasSession(user_data[u]) =>
            /\ IsTrimmed(user_data[u].session.name)
            /\ IsTrimmed(user_data[u].session.location)
            /\ IsTrimmed(user_data[u].session.concern)

\* C12 as first stated: an update received in ShowOutput that is not a
\* Restart (a Start signal, a Cancel, a free text, a skip word, an entity or
\* tone selection) leaves the state at ShowOutput and the Session unchanged.
C12_OnlyRestartLeavesShowOutput ==
    [][(last'.before = SHOW_OUTPUT /\ ~MatchesRestart(last'.upd))
       => /\ conv'[last'.key] = SHOW_OUTPUT
          /\ user_data' = user_data]_vars

\* C12 as amended: in ShowOutput a Restart leaves a fresh Session and the
\* state ChooseEntity, the command /start moves to ChooseEntity and the
\* command /cancel to Ended, both with the Session kept, and every other
\* update (a free text, the word start without the marker, a skip word, an
\* entity or tone selection) leaves the state at ShowOutput and the Session
\* unchanged.
C12_ShowOutputMoves ==
    [][last'.before = SHOW_OUTPUT =>
        LET k == last'.key
            upd == last'.upd
        IN  CASE MatchesRestart(upd) ->
                    /\ conv'[k] = CHOOSE_ENTITY
                    /\ user_data'[UserOf(k)].session = SessionData
              [] IsCommandNamed(upd, <<"s", "t", "a", "r", "t">>) ->
                    /\ conv'[k] = CHOOSE_ENTITY
                    /\ user_data' = user_data
              [] IsCommandNamed(upd, <<"c", "a", "n", "c", "e", "l">>) ->
                    /\ conv'[k] = END
                    /\ user_data' = user_data
              [] OTHER ->
                    /\ conv'[k] = SHOW_OUTPUT
                    /\ user_data' = user_data]_vars

\* C12's case: the command /start was received in ShowOutput and moved the
\* conversation to ChooseEntity, the Session of the finished pass kept.
C12_Witness ==
    /\ last.handler = "start"
    /\ last.before = SHOW_OUTPUT
    /\ conv[last.key] = CHOOSE_ENTITY
    /\ LastSession.entity_key \in DOMAIN ENTITIES
    /\ LastSession.name # <<>>

\* The update is the command /cancel.
IsCancel(upd) == IsCommandNamed(upd, <<"c", "a", "n", "c", "e", "l">>)

\* The update is a Start signal: the start word, with or without the marker.
IsStartSignal(upd) == upd.kind = "message" /\ Lower(Strip(upd.text)) \in StartWords

\* C13: a Cancel received in ChooseEntity, ChooseTone, AskName, AskLocation
\* or AskConcern moves the conversation to Ended; a conversation in Ended
\* stays there under every entity or tone selection, free text, skip word and
\* Restart, and leaves Ended only by a Start signal of its own.
C13_CancelEndsAndEndedStays ==
    [][/\ (last'.before \in CHOOSE_ENTITY..ASK_CONCERN /\ IsCancel(last'.upd))
            => conv'[last'.key] = END
       /\ \A k \in Keys :
            (conv[k] = END /\ conv'[k] # END)
            => /\ last'.key = k
               /\ IsStartSignal(last'.upd)
               /\ conv'[k] = CHOOSE_ENTITY]_vars

\* C13's case: a Cancel was received in AskLocation and ended the
\* conversation, the Session keeping what the pass had stored.
C13_Witness ==
    /\ last.handler = "cancel"
    /\ last.before = ASK_LOCATION
    /\ conv[last.key] = END
    /\ LastSession.entity_key \in DOMAIN ENTITIES

\* The update is one the state does not expect, as C14 lists them: a free
\* text in ChooseEntity or ChooseTone, an entity selection outside
\* ChooseEntity, a tone selection outside ChooseTone, a Restart outside
\* ShowOutput, a message that is no Start signal with no conversation active.
Unexpected(state, upd) ==
    \/ state \in {CHOOSE_ENTITY, CHOOSE_TEMPLATE} /\ IsPlainText(upd)
    \/ state # CHOOSE_ENTITY /\ MatchesPrefix(upd, "entity")
    \/ state # CHOOSE_TEMPLATE /\ MatchesPrefix(upd, "tpl")
    \/ state # SHOW_OUTPUT /\ MatchesRestart(upd)
    \/ state = END /\ upd.kind = "message" /\ ~IsStartSignal(upd)

\* C14: an update the state of its conversation does not expect changes
\* neither the state of any conversation nor any Session.
C14_UnexpectedChangesNothing ==
    [][Unexpected(last'.before, last'.upd)
       => /\ conv' = conv
          /\ user_data' = user_data]_vars

\* C14's case: the word start, a free text, was received in ChooseTone: the
\* entity keyboard is sent again, the state and the Session stay.
C14_Witness ==
    /\ last.handler = "handle_start_text"
    /\ last.before = CHOOSE_TEMPLATE
    /\ last.replied = "choose_entity"
    /\ conv[last.key] = CHOOSE_TEMPLATE
    /\ LastSession.entity_key \in DOMAIN ENTITIES

\* C15: an update handled in one conversation changes neither the state of
\* another conversation nor, while that other conversation is active, the
\* Session its handlers read; the two conversations here are those of one
\* user in two chats.
C15_ConversationsIsolated ==
    [][\A k \in Keys :
        k # last'.key =>
            /\ conv'[k] = conv[k]
            /\ conv[k] # END =>
                    user_data'[UserOf(k)] = user_data[UserOf(k)]]_vars

\* The body build_email_body renders for entity e with the tone and the
\* answers of the Session that the last Output was rendered from.
LastBodyFor(e) ==
    build_email_body(e, LastSession.template_key, LastSession.name,
                     LastSession.location, LastSession.concern)

\* Two bodies differ in their first line at most.
SameAfterGreeting(b1, b2) == Tail(b1) = Tail(b2)

\* C16 as first stated: with the tone and the answers of an Output, the
\* bodies rendered for any two catalog entities begin with the greetings of
\* the entities and are equal after them.
C16_BodiesDifferOnlyInGreeting ==
    last.replied = "output" =>
        \A e1, e2 \in DOMAIN ENTITIES :
            /\ Head(LastBodyFor(e1)) = greeting_of(e1)
            /\ SameAfterGreeting(LastBodyFor(e1), LastBodyFor(e2))

\* Two entities get the same fixed paragraphs in a tone: in the tone short
\* the US embassy has paragraphs of its own.
SameParagraphs(e1, e2, template_key) ==
    template_key = "short" => ((e1 = "us_embassy") <=> (e2 = "us_embassy"))

\* C16 as amended: with the tone and the answers of an Output, the bodies
\* rendered for two catalog entities begin with the greetings of the entities
\* and are equal after them, except that in the tone short the body for the
\* US embassy differs from the body for every other entity after the
\* greeting as well.
C16_ParagraphsByToneButEmbassyShort ==
    last.replied = "output" =>
        \A e1, e2 \in DOMAIN ENTITIES :
            /\ Head(LastBodyFor(e1)) = greeting_of(e1)
            /\ SameParagraphs(e1, e2, LastSession.template_key)
                    <=> SameAfterGreeting(LastBodyFor(e1), LastBodyFor(e2))

\* C16's case: an Output has been rendered for the US embassy in the tone
\* short, with a name, a location and a concern given.
C16_Witness ==
    /\ last.replied = "output"
    /\ LastSession.entity_key = "us_embassy"
    /\ LastSession.template_key = "short"
    /\ LastSession.name # <<>>
    /\ LastSession.location # <<>>
    /\ LastSession.concern # <<>>

\* The pass that ended in the last Output is the flow of C17: entity and tone
\* selected, a name given, the location skipped, a one-line concern given,
\* name and concern within their caps.
C17_Flow(t) ==
    /\ Len(t) = 5
    /\ ~t[3].skip
    /\ Len(Strip(t[3].upd.text)) \in 1..NAME_CAP
    /\ t[4].skip
    /\ ~t[5].skip
    /\ Len(Strip(t[5].upd.text)) \in 1..CONCERN_CAP
    /\ NL \notin Elements(Strip(t[5].upd.text))

\* C17: when the flow Start, entity, tone, name N, location skipped, one-line
\* concern C ends in an Output, the subject is the subject line of the entity
\* selected, the body ends with the closing line and N with no location line
\* after it, and right after the opening paragraph and its blank line come
\* the lead-in "I am particularly concerned about: ", C and a blank line.
C17_EndToEnd ==
    (last.replied = "output" /\ C17_Flow(trail[last.key])) =>
        LET t == trail[last.key]
            entity == KeyOfData(t[1].upd.data)
            N == Strip(t[3].upd.text)
            C == Strip(t[5].upd.text)
            body == LastOutput.body
        IN  /\ LastOutput.subject = build_subject(entity)
            /\ body[1] = greeting_of(entity)
            /\ body[5] = NL /\ body[6] = NL
            /\ body[7] = ConcernLeadIn
            /\ SubSeq(body, 8, 7 + Len(C)) = C
            /\ body[8 + Len(C)] = NL
            /\ body[9 + Len(C)] = NL
            /\ EndsWithSignoff(body, N)

\* C18: in a conversation that has its Session to itself no handler replies
\* "Session error": whenever get_name, get_location or get_concern (which
\* ends in show_output) has handled an update, the Session held a catalog
\* entity key and a catalog tone key and the conversation has moved on.
C18_NoSessionError ==
    /\ last.replied # "session_error"
    /\ last.handler \in {"get_name", "get_location", "get_concern"} =>
            /\ LabelsFound(LastSession)
            /\ conv[last.key] = last.before + 1

\* C18's case: get_name has handled a name in a pass begun by a Start that
\* kept the Session of an earlier pass (its concern is still stored), and has
\* found both labels.
C18_Witness ==
    /\ last.handler = "get_name"
    /\ last.replied = "ask_location"
    /\ conv[last.key] = ASK_LOCATION
    /\ LastSession.concern # <<>>

\* The Session fields that the steps of a pass determine, read off the
\* updates of the pass alone: the keys selected and the answers as
\* get_name, get_location and get_concern store them.
FieldOfStep(e) ==
    CASE e.step = "entity" -> KeyOfData(e.upd.data)
      [] e.step = "tone" -> KeyOfData(e.upd.data)
      [] e.step = "name" -> Answer(e.upd.text, NAME_CAP)
      [] e.step = "location" -> Answer(e.upd.text, LOCATION_CAP)
      [] OTHER -> Answer(e.upd.text, CONCERN_CAP)

\* The Session field that step number i of a pass stores.
SessionField(session, i) ==
    CASE i = 1 -> session.entity_key
      [] i = 2 -> session.template_key
      [] i = 3 -> session.name
      [] i = 4 -> session.location
      [] OTHER -> session.concern

\* C19: in a conversation that has its Session to itself, every field a step
\* of the current pass has stored is the one given in this pass, whatever an
\* earlier pass left in the Session, and an Output is rendered only after all
\* five steps of the pass: its subject, body and contact info are those of
\* the keys and answers given since ChooseEntity was last entered.
C19_OutputFromThisPassOnly ==
    last.handler # "init" =>
        LET t == trail[last.key]
            s == LastSession
        IN  /\ \A i \in 1..Len(t) : SessionField(s, i) = FieldOfStep(t[i])
            /\ last.replied = "output" =>
                    /\ StepsOf(t) = FullPass
                    /\ LastOutput.subject = build_subject(FieldOfStep(t[1]))
                    /\ LastOutput.contact_info =
                            contact_info_of(ENTITIES[FieldOfStep(t[1])])
                    /\ LastOutput.body =
                            build_email_body(FieldOfStep(t[1]), FieldOfStep(t[2]),
                                             FieldOfStep(t[3]), FieldOfStep(t[4]),
                                             FieldOfStep(t[5]))

\* C19's case: a pass begun by a Start that kept the Session has stored its
\* entity, tone, name and location, the name skipped, while the concern of
\* the earlier pass is still in the Session.
C19_Witness ==
    /\ last.handler = "get_location"
    /\ conv[last.key] = ASK_CONCERN
    /\ Len(trail[last.key]) = 4
    /\ trail[last.key][3].skip
    /\ LastSession.name = <<>>
    /\ LastSession.concern # <<>>

\* The update is the event the state expects: a catalog key selected in
\* ChooseEntity or ChooseTone, a free text or a skip word (with or without
\* the marker) in AskName, AskLocation or AskConcern.
Expected(state, upd) ==
    \/ /\ state = CHOOSE_ENTITY
       /\ MatchesPrefix(upd, "entity")
       /\ KeyOfData(upd.data) \in DOMAIN ENTITIES
    \/ /\ state = CHOOSE_TEMPLATE
       /\ MatchesPrefix(upd, "tpl")
       /\ KeyOfData(upd.data) \in DOMAIN TEMPLATES
    \/ /\ state \in {ASK_NAME, ASK_LOCATION, ASK_CONCERN}
       /\ upd.kind = "message"
       /\ (IsPlainText(upd) \/ IsSkip(upd.text))
       /\ ~IsStartSignal(upd) /\ ~IsCancel(upd)

\* C20, as a property of every step: the event an active state expects moves
\* the conversation to the next state, and from AskConcern to ShowOutput with
\* an Output sent, so that a user who keeps sending expected events reaches
\* the Output from every active state. A handler is a function of the state,
\* the Session and the update: an expected event that changes nothing once
\* changes nothing however often it is sent.
C20_ExpectedEventAdvances ==
    (last.handler # "init" /\ Expected(last.before, last.upd)) =>
        /\ conv[last.key] = last.before + 1
        /\ last.before = ASK_CONCERN => last.replied = "output"

====
